---- MODULE Spec2Model ----
(***************************************************************************)
(* cargo-deps: the dependency graph (src/src/graph.rs) and the pipeline    *)
(* that drives it (src/src/project.rs, Project::graph, then render_to).    *)
(*                                                                         *)
(* Node ids are 0-based as in the code (Node = usize, id 0 is the root);   *)
(* the node list is a TLA+ sequence, so the node with id i is nodes[i+1].  *)
(* Package names are the naturals 1..MaxName, ordered as the strings they  *)
(* stand for are ordered (sort_by_key on the name); versions are           *)
(* 1..MaxVer and are only ever compared for equality.                      *)
(***************************************************************************)
EXTENDS Integers, Sequences, FiniteSets, TLC

\* ---------------------------------------------------------------- bounds
MaxName == 2
MaxVer == 2
MaxNodes == 3
MaxEdges == 2
MaxDeclared == 2
MaxLockEdges == 3
MaxChain == 13

\* for _ in 0..10 (graph.rs:90)
Passes == 10

Names == 1..MaxName
Vers == 1..MaxVer

\* DepKind values that a manifest can declare (project.rs:89-112), and the
\* fallback DepKind::Unknown.
Kinds == {"Regular", "Build", "Dev", "Optional"}

None == -1

VARIABLES
    nodes,          \* DepGraph.nodes : Vec<ResolvedDep>
    edges,          \* DepGraph.edges : Vec<Edge>, each <<source id, target id>>
    cfg,            \* DepGraph.cfg   : include_orphans, include_vers
    root_name,      \* Project::graph's root_name  (0 until the manifest is read)
    root_version,   \* Project::graph's root_version
    root_deps_map,  \* Project::graph's root_deps_map : name -> set of kinds
    pc,             \* where the caller of the graph is
    pass,           \* set_resolved_kind: the pass counter of `for _ in 0..10`
    idx,            \* set_resolved_kind: position of `ed` in self.edges.iter()
    panicked,       \* "" or the expression that panicked
    out_nodes,      \* render_to: the node lines written
    out_edges,      \* render_to: the edge lines written
    pre             \* the graph as it was when the pass now running was entered

vars == <<nodes, edges, cfg, root_name, root_version, root_deps_map, pc, pass,
          idx, panicked, out_nodes, out_edges, pre>>

\* ------------------------------------------------------------- helpers
Min(S) == CHOOSE x \in S : \A y \in S : x <= y

\* ResolvedDep::new: every flag starts false (graph.rs:109-110).
ResolvedDep(name, ver) ==
    [name |-> name, ver |-> ver, is_regular |-> FALSE, is_build |-> FALSE,
     is_dev |-> FALSE, is_optional |-> FALSE, force_write_ver |-> FALSE]

\* DepGraph::get: Some(&nodes[id]) when id < nodes.len().
InRange(ns, id) == id >= 0 /\ id < Len(ns)

get(ns, id) == ns[id + 1]

NoGraph == [nodes |-> <<>>, edges |-> <<>>]

\* --------------------------------------------------------- construction
\* DepGraph::find: the first node with that name and version.
find(ns, name, ver) ==
    LET hits == {i \in 1..Len(ns) : ns[i].name = name /\ ns[i].ver = ver}
    IN  IF hits = {} THEN None ELSE Min(hits) - 1

\* DepGraph::find_or_add: <<node list, id>>.
find_or_add(ns, name, ver) ==
    IF find(ns, name, ver) # None
    THEN <<ns, find(ns, name, ver)>>
    ELSE <<Append(ns, ResolvedDep(name, ver)), Len(ns)>>

\* DepGraph::new(cfg)
Init ==
    /\ nodes = <<>>
    /\ edges = <<>>
    /\ cfg \in [include_orphans : BOOLEAN, include_vers : BOOLEAN]
    /\ root_name = 0
    /\ root_version = 0
    /\ root_deps_map = <<>>
    /\ pc = "build"
    /\ pass = 0
    /\ idx = 0
    /\ panicked = ""
    /\ out_nodes = <<>>
    /\ out_edges = <<>>
    /\ pre = NoGraph

\* parse_package's dg.find_or_add(name, ver) for a package of the lock file.
FindOrAdd ==
    /\ pc = "build"
    /\ \E name \in Names, ver \in Vers :
        /\ find(nodes, name, ver) = None
        /\ Len(nodes) < MaxNodes
        /\ nodes' = find_or_add(nodes, name, ver)[1]
    /\ UNCHANGED <<edges, cfg, root_name, root_version, root_deps_map, pc, pass,
                   idx, panicked, out_nodes, out_edges, pre>>

\* DepGraph::add_child(parent, dep_name, dep_ver).  The parent id is whatever
\* the caller passes: nothing checks that it is the id of a node.
AddChild ==
    /\ pc = "build"
    /\ Len(edges) < MaxEdges
    /\ \E parent \in 0..MaxNodes, name \in Names, ver \in Vers :
        LET r == find_or_add(nodes, name, ver)
        IN  /\ Len(r[1]) <= MaxNodes
            /\ nodes' = r[1]
            /\ edges' = Append(edges, <<parent, r[2]>>)
    /\ UNCHANGED <<cfg, root_name, root_version, root_deps_map, pc, pass, idx,
                   panicked, out_nodes, out_edges, pre>>

\* ------------------------------------------------------- root selection
\* The endpoint rewrite with the `else` of lines 266 and 271 lost: an endpoint
\* moved from 0 to root_id is moved back by the second test.
SwapId_NoElse(id, root_id) ==
    IF id = 0 \/ id = root_id THEN 0 ELSE id

\* Lines 264-273: an endpoint 0 becomes root_id, an endpoint root_id becomes 0.
SwapId(id, root_id) ==
    IF id = 0 THEN root_id ELSE IF id = root_id THEN 0 ELSE id

\* DepGraph::set_root, the part after find() succeeded with root_id:
\* nodes.swap(0, root_id) and the rewrite of every edge endpoint.
set_root(ns, es, root_id) ==
    IF root_id = 0
    THEN [nodes |-> ns, edges |-> es]
    ELSE [nodes |-> [i \in 1..Len(ns) |->
                        IF i = 1 THEN ns[root_id + 1]
                        ELSE IF i = root_id + 1 THEN ns[1] ELSE ns[i]],
          edges |-> [k \in 1..Len(es) |->
                        <<SwapId(es[k][1], root_id), SwapId(es[k][2], root_id)>>]]

\* The kind sets a manifest can declare a name under: a name listed in k of
\* the tables [dependencies] (regular or optional), [build-dependencies],
\* [dev-dependencies] gets k kinds (project.rs:83-116).
KindSets == {S \in SUBSET Kinds : Cardinality(S) >= 1 /\ Cardinality(S) <= MaxDeclared}

\* The root_deps_map values Project::graph can build (project.rs:36-41):
\* each name is absent or declared under a non-empty set of kinds.
DeclaredMaps == UNION {[D -> KindSets] : D \in SUBSET Names}

\* With the default Config (config.rs:37-40: regular_deps on, build_deps,
\* dev_deps and optional_deps off) parse_root_deps only pushes Regular.
RegularMaps == {m \in DeclaredMaps : \A n \in DOMAIN m : m[n] = {"Regular"}}

\* Project::graph lines 27-41: the manifest gives root_name, root_version and
\* the declared dependencies; dg.set_root(&root_name, &root_version); a false
\* return is the error "Missing name or version".
SetRoot ==
    /\ pc = "build"
    /\ \E name \in Names, ver \in Vers, m \in RegularMaps :
        LET root_id == find(nodes, name, ver)
            g == set_root(nodes, edges, root_id)
        IN  /\ root_name' = name
            /\ root_version' = ver
            /\ IF root_id = None
               THEN /\ pc' = "err"
                    /\ UNCHANGED <<nodes, edges, root_deps_map, pre>>
               ELSE /\ pc' = "kind"
                    /\ root_deps_map' = m
                    /\ pre' = [nodes |-> nodes, edges |-> edges]
                    /\ nodes' = g.nodes
                    /\ edges' = g.edges
    /\ UNCHANGED <<cfg, pass, idx, panicked, out_nodes, out_edges>>

\* ------------------------------------------------------ kind propagation
\* #[derive(PartialOrd, Ord)] on Edge(Node, Node): by source id, then target.
EdgeLess(a, b) == a[1] < b[1] \/ (a[1] = b[1] /\ a[2] < b[2])

RECURSIVE Insert(_, _)
Insert(s, e) ==
    IF s = <<>> THEN <<e>>
    ELSE IF EdgeLess(e, Head(s)) THEN <<e>> \o s
    ELSE <<Head(s)>> \o Insert(Tail(s), e)

\* self.edges.sort()
RECURSIVE SortEdges(_)
SortEdges(es) ==
    IF es = <<>> THEN <<>>
    ELSE Insert(SortEdges(SubSeq(es, 1, Len(es) - 1)), es[Len(es)])

\* self.nodes[0].is_regular = true
MarkRoot(ns) == [ns EXCEPT ![1].is_regular = TRUE]

\* Lines 113-124 with the is_optional test left out: regular, build and dev
\* spread along an edge, optional does not.
TargetFlags_NoOptional(ns, ed, map) ==
    LET src == get(ns, ed[1])
        tgt == get(ns, ed[2])
    IN  IF ed[1] = 0
        THEN IF tgt.name \in DOMAIN map
             THEN [tgt EXCEPT
                     !.is_regular = @ \/ "Regular" \in map[tgt.name],
                     !.is_build = @ \/ "Build" \in map[tgt.name],
                     !.is_dev = @ \/ "Dev" \in map[tgt.name],
                     !.is_optional = @ \/ "Optional" \in map[tgt.name]]
             ELSE tgt
        ELSE [tgt EXCEPT
                !.is_regular = IF src.is_regular THEN TRUE ELSE @,
                !.is_build = IF src.is_build THEN TRUE ELSE @,
                !.is_dev = IF src.is_dev THEN TRUE ELSE @]

\* Lines 113-124 as plain assignments: the target's flags are overwritten
\* with the source's (nodes[ed.1].is_x = nodes[ed.0].is_x).
TargetFlags_Assign(ns, ed, map) ==
    LET src == get(ns, ed[1])
        tgt == get(ns, ed[2])
    IN  IF ed[1] = 0
        THEN IF tgt.name \in DOMAIN map
             THEN [tgt EXCEPT
                     !.is_regular = @ \/ "Regular" \in map[tgt.name],
                     !.is_build = @ \/ "Build" \in map[tgt.name],
                     !.is_dev = @ \/ "Dev" \in map[tgt.name],
                     !.is_optional = @ \/ "Optional" \in map[tgt.name]]
             ELSE tgt
        ELSE [tgt EXCEPT
                !.is_regular = src.is_regular,
                !.is_build = src.is_build,
                !.is_dev = src.is_dev,
                !.is_optional = src.is_optional]

\* The flags one edge sets on its target, lines 92-125.
TargetFlags(ns, ed, map) ==
    LET src == get(ns, ed[1])
        tgt == get(ns, ed[2])
    IN  IF ed[1] = 0
        THEN IF tgt.name \in DOMAIN map
             THEN [tgt EXCEPT
                     !.is_regular = @ \/ "Regular" \in map[tgt.name],
                     !.is_build = @ \/ "Build" \in map[tgt.name],
                     !.is_dev = @ \/ "Dev" \in map[tgt.name],
                     !.is_optional = @ \/ "Optional" \in map[tgt.name]]
             ELSE tgt
        ELSE [tgt EXCEPT
                !.is_regular = IF src.is_regular THEN TRUE ELSE @,
                !.is_build = IF src.is_build THEN TRUE ELSE @,
                !.is_dev = IF src.is_dev THEN TRUE ELSE @,
                !.is_optional = IF src.is_optional THEN TRUE ELSE @]

\* One iteration of `for ed in self.edges.iter()`.
RelaxEdge(ns, ed, map) == [ns EXCEPT ![ed[2] + 1] = TargetFlags(ns, ed, map)]

\* self.nodes[ed.0] and self.nodes[ed.1] index the Vec: an id that is not
\* below nodes.len() panics.  nodes[ed.1] is only reached from a non-root
\* source when one of the source's flags is set.
RelaxPanics(ns, ed) ==
    IF ed[1] = 0
    THEN ~InRange(ns, ed[2])
    ELSE \/ ~InRange(ns, ed[1])
         \/ /\ ~InRange(ns, ed[2])
            /\ LET src == get(ns, ed[1])
               IN  src.is_regular \/ src.is_build \/ src.is_dev \/ src.is_optional

\* The inner loop from position k of the edge list on.
RECURSIVE RelaxFrom(_, _, _, _)
RelaxFrom(ns, es, k, map) ==
    IF k > Len(es) THEN [nodes |-> ns, panic |-> FALSE]
    ELSE IF RelaxPanics(ns, es[k]) THEN [nodes |-> ns, panic |-> TRUE]
    ELSE RelaxFrom(RelaxEdge(ns, es[k], map), es, k + 1, map)

\* The n remaining passes of `for _ in 0..10`.
RECURSIVE RelaxPasses(_, _, _, _)
RelaxPasses(ns, es, n, map) ==
    IF n = 0 THEN [nodes |-> ns, panic |-> FALSE]
    ELSE LET r == RelaxFrom(ns, es, 1, map)
         IN  IF r.panic THEN r ELSE RelaxPasses(r.nodes, es, n - 1, map)

\* DepGraph::set_resolved_kind as one call.
set_resolved_kind(ns, es, map) ==
    LET sorted == SortEdges(es)
        r == RelaxPasses(MarkRoot(ns), sorted, Passes, map)
    IN  [nodes |-> r.nodes, edges |-> sorted, panic |-> r.panic]

KindPanic == "self.nodes[ed.0]"

\* Project::graph line 44: dg.set_resolved_kind(&root_deps_map).
SetResolvedKind ==
    /\ pc = "kind"
    /\ LET r == set_resolved_kind(nodes, edges, root_deps_map)
       IN  /\ nodes' = r.nodes
           /\ edges' = r.edges
           /\ pc' = IF r.panic THEN "panic" ELSE "dup"
           /\ panicked' = IF r.panic THEN KindPanic ELSE panicked
    /\ pre' = NoGraph
    /\ UNCHANGED <<cfg, root_name, root_version, root_deps_map, pass, idx,
                   out_nodes, out_edges>>

\* A caller of the pub API that renders a graph whose kinds it never resolved.
SkipResolvedKind ==
    /\ pc = "kind"
    /\ pc' = "dup"
    /\ pre' = NoGraph
    /\ UNCHANGED <<nodes, edges, cfg, root_name, root_version, root_deps_map,
                   pass, idx, panicked, out_nodes, out_edges>>

\* set_resolved_kind one edge at a time: lines 82-86, then the loops.
KindBegin ==
    /\ pc = "kind"
    /\ nodes' = MarkRoot(nodes)
    /\ edges' = SortEdges(edges)
    /\ pass' = 0
    /\ idx' = 0
    /\ pc' = "kind_loop"
    /\ pre' = NoGraph
    /\ UNCHANGED <<cfg, root_name, root_version, root_deps_map, panicked,
                   out_nodes, out_edges>>

\* The body of the inner loop for the edge at position idx.
KindStep ==
    /\ pc = "kind_loop"
    /\ pass < Passes
    /\ idx < Len(edges)
    /\ IF RelaxPanics(nodes, edges[idx + 1])
       THEN /\ pc' = "panic"
            /\ panicked' = KindPanic
            /\ UNCHANGED <<nodes, idx>>
       ELSE /\ nodes' = RelaxEdge(nodes, edges[idx + 1], root_deps_map)
            /\ idx' = idx + 1
            /\ UNCHANGED <<pc, panicked>>
    /\ UNCHANGED <<edges, cfg, root_name, root_version, root_deps_map, pass,
                   out_nodes, out_edges, pre>>

\* self.edges.iter() is exhausted: the next pass of the outer loop.
KindNextPass ==
    /\ pc = "kind_loop"
    /\ pass < Passes
    /\ idx = Len(edges)
    /\ pass' = pass + 1
    /\ idx' = 0
    /\ UNCHANGED <<nodes, edges, cfg, root_name, root_version, root_deps_map,
                   pc, panicked, out_nodes, out_edges, pre>>

\* The outer loop is exhausted: set_resolved_kind returns.
KindReturn ==
    /\ pc = "kind_loop"
    /\ pass = Passes
    /\ pc' = "dup"
    /\ UNCHANGED <<nodes, edges, cfg, root_name, root_version, root_deps_map,
                   pass, idx, panicked, out_nodes, out_edges, pre>>

\* -------------------------------------------------- duplicate versions
\* deps.sort_by_key(|dep| &*dep.1.name): a stable sort of the enumerated
\* nodes, so equal names stay in id order.  The ids in that order.
dep_ids_sorted_by_name(ns) ==
    LET n == Len(ns)
        Rank(i) == Cardinality({j \in 0..(n - 1) :
                        \/ get(ns, j).name < get(ns, i).name
                        \/ (get(ns, j).name = get(ns, i).name /\ j < i)})
    IN  [p \in 1..n |-> CHOOSE i \in 0..(n - 1) : Rank(i) = p - 1]

\* The positions j the inner loop visits for the outer position i:
\* iter().enumerate().take(len + 1).skip(i + 1).  The iterator holds len
\* items, so take(len + 1) yields min(len, len + 1) of them.
InnerPositions(len, i) ==
    LET yielded == IF len < len + 1 THEN len ELSE len + 1
    IN  {j \in 0..(yielded - 1) : j >= i + 1}

\* The position at which the inner loop reaches its `break` (lines 155-170),
\* or None when the iterator is exhausted first.
BreakAt(ns, ids, i) ==
    LET len == Len(ids)
        stops == {j \in InnerPositions(len, i) :
                      \/ j >= len
                      \/ get(ns, ids[i + 1]).name # get(ns, ids[j + 1]).name}
    IN  IF stops = {} THEN None ELSE Min(stops)

\* The ids that get force_write_ver = true: for each outer position i of
\* take(len - 1), the positions i..j-1 when the break is at j >= i + 2.
ForcedIds(ns) ==
    LET ids == dep_ids_sorted_by_name(ns)
        len == Len(ids)
    IN  UNION {LET j == BreakAt(ns, ids, i)
               IN  IF j # None /\ j >= i + 2
                   THEN {ids[k + 1] : k \in i..(j - 1)}
                   ELSE {} : i \in 0..(len - 2)}

\* DepGraph::show_version_on_duplicates on a non-empty node list.
show_version_on_duplicates(ns) ==
    [p \in 1..Len(ns) |->
        IF (p - 1) \in ForcedIds(ns)
        THEN [ns[p] EXCEPT !.force_write_ver = TRUE]
        ELSE ns[p]]

\* Project::graph lines 46-48, include_vers off.
ShowVersionOnDuplicates ==
    /\ pc = "dup"
    /\ ~cfg.include_vers
    /\ nodes' = show_version_on_duplicates(nodes)
    /\ pc' = "render"
    /\ UNCHANGED <<edges, cfg, root_name, root_version, root_deps_map, pass,
                   idx, panicked, out_nodes, out_edges, pre>>

\* Project::graph lines 46-48, include_vers on: the pass is not run.
KeepVersions ==
    /\ pc = "dup"
    /\ cfg.include_vers
    /\ pc' = "render"
    /\ UNCHANGED <<nodes, edges, cfg, root_name, root_version, root_deps_map,
                   pass, idx, panicked, out_nodes, out_edges, pre>>

\* ------------------------------------------------------------ rendering
\* Vec::dedup: consecutive equal elements collapse to the first.
RECURSIVE Dedup(_)
Dedup(es) ==
    IF Len(es) <= 1 THEN es
    ELSE LET d == Dedup(SubSeq(es, 1, Len(es) - 1))
         IN  IF d[Len(d)] = es[Len(es)] THEN d ELSE Append(d, es[Len(es)])

\* render_to lines 301-302.
SortDedup ==
    /\ pc = "render"
    /\ edges' = Dedup(SortEdges(edges))
    /\ pc' = "orphans"
    /\ UNCHANGED <<nodes, cfg, root_name, root_version, root_deps_map, pass,
                   idx, panicked, out_nodes, out_edges, pre>>

\* self.nodes.remove(id)
RemoveAt(s, id) == SubSeq(s, 1, id) \o SubSeq(s, id + 2, Len(s))

\* Lines 206-213 left out: no id is shifted down.
Decrement_None(x, id) == x

\* Lines 206-213: an id above the removed one shifts down by one.
Decrement(x, id) == IF x > id THEN x - 1 ELSE x

\* The `loop` of remove_orphans (lines 191-221): the first id that no edge
\* targets (id 0 is always used) is removed, the edges leaving it are
\* dropped, the ids above it shift down by one; then the scan restarts.
RECURSIVE OrphanLoop(_, _)
OrphanLoop(ns, es) ==
    LET used == {0} \cup {es[k][2] : k \in 1..Len(es)}
        unused == {id \in 0..(Len(ns) - 1) : id \notin used}
    IN  IF unused = {} THEN [nodes |-> ns, edges |-> es]
        ELSE LET id == Min(unused)
                 kept == SelectSeq(es, LAMBDA e : e[1] # id)
             IN  OrphanLoop(RemoveAt(ns, id),
                            [k \in 1..Len(kept) |->
                                <<Decrement(kept[k][1], id),
                                  Decrement(kept[k][2], id)>>])

\* remove_orphans without the retain of line 190.
remove_orphans_NoRetain(ns, es) == OrphanLoop(ns, es)

\* DepGraph::remove_orphans on a non-empty node list: the retain of line 190,
\* then the loop.
remove_orphans(ns, es) ==
    LET len == Len(ns)
    IN  OrphanLoop(ns, SelectSeq(es, LAMBDA e : e[1] < len /\ e[2] < len))

\* render_to lines 303-305, include_orphans off.
RemoveOrphans ==
    /\ pc = "orphans"
    /\ ~cfg.include_orphans
    /\ LET g == remove_orphans(nodes, edges)
       IN  /\ nodes' = g.nodes
           /\ edges' = g.edges
    /\ pre' = [nodes |-> nodes, edges |-> edges]
    /\ pc' = "self"
    /\ UNCHANGED <<cfg, root_name, root_version, root_deps_map, pass, idx,
                   panicked, out_nodes, out_edges>>

\* render_to lines 303-305, include_orphans on.
KeepOrphans ==
    /\ pc = "orphans"
    /\ cfg.include_orphans
    /\ pre' = NoGraph
    /\ pc' = "self"
    /\ UNCHANGED <<nodes, edges, cfg, root_name, root_version, root_deps_map,
                   pass, idx, panicked, out_nodes, out_edges>>

\* render_to line 306: remove_self_pointing is entered.
CallRemoveSelfPointing ==
    /\ pc = "self"
    /\ pre' = [nodes |-> nodes, edges |-> edges]
    /\ pc' = "self_loop"
    /\ UNCHANGED <<nodes, edges, cfg, root_name, root_version, root_deps_map,
                   pass, idx, panicked, out_nodes, out_edges>>

\* The positions of the edges with equal source and target.
SelfPointing(es) == {k \in 1..Len(es) : es[k][1] = es[k][2]}

\* self.edges.remove(id) with the index one too high.
RemoveMarked_OffByOne(es) == RemoveAt(es, Min(SelfPointing(es)))

\* Lines 228-241 when an edge was found: the first scan marks the first
\* self-pointing edge and breaks, the second removes the marked edge.
RemoveMarked(es) == RemoveAt(es, Min(SelfPointing(es)) - 1)

\* One iteration of the `loop` of remove_self_pointing (lines 225-245); with
\* no self-pointing edge found the loop is left.
RemoveSelfPointingIter ==
    /\ pc = "self_loop"
    /\ IF SelfPointing(edges) # {}
       THEN /\ edges' = RemoveMarked(edges)
            /\ UNCHANGED pc
       ELSE /\ pc' = "emit"
            /\ UNCHANGED edges
    /\ UNCHANGED <<nodes, cfg, root_name, root_version, root_deps_map, pass,
                   idx, panicked, out_nodes, out_edges, pre>>

\* ResolvedDep::kind(): the one kind of a node, by priority.
kind(d) ==
    IF d.is_regular THEN "Regular"
    ELSE IF d.is_build THEN "Build"
    ELSE IF d.is_dev THEN "Dev"
    ELSE IF d.is_optional THEN "Optional"
    ELSE "Unknown"

\* Edge::label lines 32-42: the kind the root declares the child under.
DeclaredKind(kinds) ==
    IF "Regular" \in kinds THEN "Regular"
    ELSE IF "Build" \in kinds THEN "Build"
    ELSE IF "Dev" \in kinds THEN "Dev"
    ELSE IF "Optional" \in kinds THEN "Optional"
    ELSE "Unknown"

\* Lines 29-45 without the special case for edges from the root.
ChildKind_Propagated(ns, ed, map) == kind(get(ns, ed[2]))

\* Edge::label lines 29-45: the child kind of an edge.
ChildKind(ns, ed, map) ==
    IF ed[1] = 0
    THEN DeclaredKind(map[get(ns, ed[2]).name])
    ELSE kind(get(ns, ed[2]))

Plain == [color |-> "", style |-> ""]

Dashed(color) == [color |-> color, style |-> "dashed"]

\* The match with each arm taking either side: (Build, _) | (_, Build), then
\* (Dev, _) | (_, Dev), then (Optional, _) | (_, Optional).
EdgeStyle_EitherSide(parent, child) ==
    IF parent = "Regular" /\ child = "Regular" THEN Plain
    ELSE IF parent = "Build" \/ child = "Build" THEN Dashed("purple")
    ELSE IF parent = "Dev" \/ child = "Dev" THEN Dashed("blue")
    ELSE IF parent = "Optional" \/ child = "Optional" THEN Dashed("red")
    ELSE Dashed("orange")

\* Edge::label lines 47-53: the match on (parent, child), arm by arm.
EdgeStyle(parent, child) ==
    IF parent = "Regular" /\ child = "Regular" THEN Plain
    ELSE IF parent = "Build" \/ (parent = "Regular" /\ child = "Build")
    THEN Dashed("purple")
    ELSE IF parent = "Dev" \/ (parent = "Regular" /\ child = "Dev")
    THEN Dashed("blue")
    ELSE IF parent = "Optional" \/ (parent = "Regular" /\ child = "Optional")
    THEN Dashed("red")
    ELSE Dashed("orange")

\* The unwrap() of Edge::label that panics on this edge, or "".
LabelPanic(ns, ed, map) ==
    IF ~InRange(ns, ed[1]) THEN "dg.get(self.0).unwrap()"
    ELSE IF ~InRange(ns, ed[2]) THEN "dg.get(self.1).unwrap()"
    ELSE IF ed[1] = 0 /\ get(ns, ed[2]).name \notin DOMAIN map
    THEN "root_deps_map.get(&child_dep.name).unwrap()"
    ELSE ""

\* The line Edge::label and Display write for an edge.
EdgeLine(ns, ed, map) ==
    LET parent == kind(get(ns, ed[1]))
        child == ChildKind(ns, ed, map)
    IN  [edge |-> ed, parent |-> parent, child |-> child,
         color |-> EdgeStyle(parent, child).color,
         style |-> EdgeStyle(parent, child).style]

\* ResolvedDep::label: the version is written when include_vers is on or
\* the node has force_write_ver; the fill colour is keyed to kind().
NodeLine(ns, id, c) ==
    [id |-> id, name |-> get(ns, id).name,
     ver |-> IF c.include_vers \/ get(ns, id).force_write_ver
             THEN get(ns, id).ver ELSE 0,
     kind |-> kind(get(ns, id))]

\* render_to lines 308-347 with cfg.subgraph = None: every node line, then
\* the edge lines up to the first edge whose label panics.
Emit ==
    /\ pc = "emit"
    /\ LET bad == {k \in 1..Len(edges) : LabelPanic(nodes, edges[k], root_deps_map) # ""}
           upto == IF bad = {} THEN Len(edges) ELSE Min(bad) - 1
       IN  /\ out_nodes' = [p \in 1..Len(nodes) |-> NodeLine(nodes, p - 1, cfg)]
           /\ out_edges' = [k \in 1..upto |-> EdgeLine(nodes, edges[k], root_deps_map)]
           /\ pc' = IF bad = {} THEN "done" ELSE "panic"
           /\ panicked' = IF bad = {} THEN panicked
                          ELSE LabelPanic(nodes, edges[Min(bad)], root_deps_map)
    /\ UNCHANGED <<nodes, edges, cfg, root_name, root_version, root_deps_map,
                   pass, idx, pre>>

\* --------------------------------------------------------- specification
Next ==
    \/ FindOrAdd
    \/ AddChild
    \/ SetRoot
    \/ SetResolvedKind
    \/ SkipResolvedKind
    \/ ShowVersionOnDuplicates
    \/ KeepVersions
    \/ SortDedup
    \/ RemoveOrphans
    \/ KeepOrphans
    \/ CallRemoveSelfPointing
    \/ RemoveSelfPointingIter
    \/ Emit

Spec == Init /\ [][Next]_vars

\* ------------------------------------------------- graphs of a lock file
\* The node list parse_lock_file builds for n packages, the root package
\* first: distinct (name, version) pairs, every flag false.
LockNodes(n) ==
    [p \in 1..n |-> ResolvedDep(1 + ((p - 1) % MaxName), 1 + ((p - 1) \div MaxName))]

\* A chain of n packages whose ids grow along the chain: 0 -> 1 -> ... -> n-1.
AscChain(n) == [k \in 1..(n - 1) |-> <<k - 1, k>>]

\* A chain whose ids shrink along the chain: 0 -> n-1 -> n-2 -> ... -> 1
\* (the lock file lists a package after the packages it depends on).
DescChain(n) == [k \in 1..(n - 1) |-> <<IF k = 1 THEN 0 ELSE n - k + 1, n - k>>]

\* Every strictly sorted list of at most MaxLockEdges edges among n nodes.
SmallEdgeLists(n) ==
    UNION {{es \in [1..k -> (0..(n - 1)) \X (0..(n - 1))] :
                \A i \in 1..(k - 1) : EdgeLess(es[i], es[i + 1])} :
           k \in 0..MaxLockEdges}

LockGraphs ==
    {[nodes |-> LockNodes(n), edges |-> es] :
        n \in 1..MaxNodes, es \in SmallEdgeLists(MaxNodes)} \cup
    {[nodes |-> LockNodes(n), edges |-> AscChain(n)] : n \in 2..MaxChain} \cup
    {[nodes |-> LockNodes(n), edges |-> DescChain(n)] : n \in 2..MaxChain}

\* Project::graph after set_root succeeded on the graph of a lock file, with
\* every dependency section of the manifest honoured (--all-deps).
InitLock ==
    /\ \E g \in LockGraphs :
        /\ \A k \in 1..Len(g.edges) :
              InRange(g.nodes, g.edges[k][1]) /\ InRange(g.nodes, g.edges[k][2])
        /\ nodes = g.nodes
        /\ edges = g.edges
    /\ cfg \in [include_orphans : BOOLEAN, include_vers : {FALSE}]
    /\ root_name = 1
    /\ root_version = 1
    /\ root_deps_map \in DeclaredMaps
    /\ pc = "kind"
    /\ pass = 0
    /\ idx = 0
    /\ panicked = ""
    /\ out_nodes = <<>>
    /\ out_edges = <<>>
    /\ pre = NoGraph

NextLock ==
    \/ KindBegin
    \/ KindStep
    \/ KindNextPass
    \/ KindReturn
    \/ ShowVersionOnDuplicates
    \/ SortDedup
    \/ RemoveOrphans
    \/ KeepOrphans
    \/ CallRemoveSelfPointing
    \/ RemoveSelfPointingIter
    \/ Emit

SpecLock == InitLock /\ [][NextLock]_vars

\* The behaviours in which a loop iteration that can run does run: the
\* program is sequential and nothing suspends remove_self_pointing.
SpecFair == Spec /\ WF_vars(RemoveSelfPointingIter)

\* ---------------------------------------------------------------- claims
\* The package an edge endpoint names; an id that is no node's id names none.
PkgAt(ns, id) ==
    IF InRange(ns, id) THEN <<get(ns, id).name, get(ns, id).ver>> ELSE <<0, id>>

Dangling(ns, es) ==
    {k \in 1..Len(es) : ~InRange(ns, es[k][1]) \/ ~InRange(ns, es[k][2])}

SameName(ns, p) == {q \in 1..Len(ns) : q # p /\ ns[q].name = ns[p].name}

\* C1: after show_version_on_duplicates has run, a node has force_write_ver
\* exactly when some other node has its name, wherever that name falls in the
\* name-sorted order.
C1_ForcedIffDuplicate ==
    (pc = "render" /\ ~cfg.include_vers) =>
        \A p \in 1..Len(nodes) :
            nodes[p].force_write_ver <=> (SameName(nodes, p) # {})

\* C4: set_root returns false only when no node has the requested name and
\* version; when it returns true, node 0 is the requested package, the old
\* node 0 sits at the requested package's old id, every other node keeps its
\* id, and every edge joins the same two packages as before.
C4_SetRootRelabels ==
    /\ pc = "err" =>
          \A p \in 1..Len(nodes) :
              ~(nodes[p].name = root_name /\ nodes[p].ver = root_version)
    /\ (pc = "kind" /\ pre # NoGraph) =>
          LET r == CHOOSE i \in 0..(Len(pre.nodes) - 1) :
                       PkgAt(pre.nodes, i) = <<root_name, root_version>>
          IN  /\ Len(nodes) = Len(pre.nodes)
              /\ PkgAt(nodes, 0) = <<root_name, root_version>>
              /\ get(nodes, 0) = get(pre.nodes, r)
              /\ get(nodes, r) = get(pre.nodes, 0)
              /\ \A i \in 0..(Len(nodes) - 1) :
                    (i # 0 /\ i # r) => get(nodes, i) = get(pre.nodes, i)
              /\ Len(edges) = Len(pre.edges)
              /\ \A k \in 1..Len(edges) : \A e \in 1..2 :
                    PkgAt(nodes, edges[k][e]) = PkgAt(pre.nodes, pre.edges[k][e])

\* C4 witness: set_root moved a node other than node 0 to the root, in a
\* graph with an edge between the two swapped ids and a self-loop on one.
C4_Witness ==
    /\ pc = "kind"
    /\ pre # NoGraph
    /\ PkgAt(pre.nodes, 0) # <<root_name, root_version>>
    /\ \E k \in 1..Len(edges) : edges[k][1] # edges[k][2] /\ edges[k][1] = 0
                                /\ PkgAt(pre.nodes, 0) = PkgAt(nodes, edges[k][2])
    /\ \E k \in 1..Len(edges) : edges[k][1] = edges[k][2] /\ edges[k][1] = 0

\* C5: when remove_orphans returns, node 0 is the node that was node 0, every
\* edge has both endpoints in range, and every other remaining node is the
\* target of a remaining edge.
C5_OrphansRemoved ==
    (pc = "self" /\ pre # NoGraph) =>
        /\ Len(nodes) >= 1
        /\ get(nodes, 0) = get(pre.nodes, 0)
        /\ Dangling(nodes, edges) = {}
        /\ \A i \in 1..(Len(nodes) - 1) :
              \E k \in 1..Len(edges) : edges[k][2] = i

\* C5 witness: remove_orphans dropped a dangling edge and removed a node, and
\* a node other than the root remains.
C5_Witness ==
    /\ pc = "self"
    /\ pre # NoGraph
    /\ Dangling(pre.nodes, pre.edges) # {}
    /\ Len(nodes) < Len(pre.nodes)
    /\ Len(nodes) >= 2

\* C8: a graph with a dangling edge never makes a later pass panic on an
\* out-of-range node id.
C8_DanglingNeverPanics ==
    Dangling(nodes, edges) # {} =>
        panicked \notin {KindPanic, "dg.get(self.0).unwrap()", "dg.get(self.1).unwrap()"}

NonSelfPointing(es) == SelectSeq(es, LAMBDA e : e[1] # e[2])

HasKind(d, kd) ==
    CASE kd = "Regular" -> d.is_regular
      [] kd = "Build" -> d.is_build
      [] kd = "Dev" -> d.is_dev
      [] kd = "Optional" -> d.is_optional

\* S closed n times under the edges that leave a node other than the root.
RECURSIVE Closure(_, _, _)
Closure(S, es, n) ==
    IF n = 0 THEN S
    ELSE Closure(S \cup {es[k][2] : k \in {j \in 1..Len(es) :
                                              es[j][1] # 0 /\ es[j][1] \in S}},
                 es, n - 1)

\* The ids that carry kind kd in the least fixed point of the relaxation
\* rule: the root if kd is Regular, the targets of the root's edges whose
\* name is declared under kd, and whatever those reach.
Reached(ns, es, map, kd) ==
    Closure((IF kd = "Regular" THEN {0} ELSE {}) \cup
            {es[k][2] : k \in {j \in 1..Len(es) :
                /\ es[j][1] = 0
                /\ get(ns, es[j][2]).name \in DOMAIN map
                /\ kd \in map[get(ns, es[j][2]).name]}},
            es, Len(ns))

AtFixedPoint ==
    \A i \in 0..(Len(nodes) - 1) : \A kd \in Kinds :
        HasKind(get(nodes, i), kd) <=> (i \in Reached(nodes, edges, root_deps_map, kd))

Max(S) == CHOOSE x \in S : \A y \in S : x >= y

\* The number of edges of the longest path (no node twice) that starts at v
\* and avoids the nodes in seen.
RECURSIVE LongestPathFrom(_, _, _)
LongestPathFrom(v, seen, es) ==
    LET nxt == {es[k][2] : k \in {j \in 1..Len(es) : es[j][1] = v}} \ seen
    IN  IF nxt = {} THEN 0
        ELSE 1 + Max({LongestPathFrom(w, seen \cup {w}, es) : w \in nxt})

\* C2: when set_resolved_kind returns, every node's flags are the least
\* fixed point of the relaxation rule, whatever the graph's depth and ids.
C2_AlwaysFixedPoint == (pc = "dup") => AtFixedPoint

\* C3: when every path from the root has fewer than 10 edges, the flags
\* set_resolved_kind leaves are the least fixed point of the relaxation rule.
C3_ShallowFixedPoint ==
    (pc = "dup" /\ LongestPathFrom(0, {0}, edges) < Passes) => AtFixedPoint

\* C3 witness: set_resolved_kind returned on a chain of 9 edges whose ids
\* shrink along the chain, and the last node of the chain carries a kind.
C3_Witness ==
    /\ pc = "dup"
    /\ LongestPathFrom(0, {0}, edges) = Passes - 1
    /\ \E k \in 1..Len(edges) : edges[k] = <<2, 1>>
    /\ \E kd \in Kinds : HasKind(get(nodes, 1), kd)
    /\ \A k \in 1..Len(edges) : edges[k][2] # 1 \/ edges[k][1] = 2

\* C6: the child kind of an edge from node 0 is the first of Regular, Build,
\* Dev, Optional that the root declares for the child's name, whatever flags
\* the child carries; from the regular root the edge is drawn in that kind's
\* style.
C6_RootEdgeUsesDeclaredKind ==
    \A k \in 1..Len(out_edges) :
        LET line == out_edges[k]
            kinds == root_deps_map[get(nodes, line.edge[2]).name]
        IN  line.edge[1] = 0 =>
              /\ \/ line.child = "Regular" /\ "Regular" \in kinds
                 \/ line.child = "Build" /\ kinds \cap {"Regular"} = {}
                                         /\ "Build" \in kinds
                 \/ line.child = "Dev" /\ kinds \cap {"Regular", "Build"} = {}
                                       /\ "Dev" \in kinds
                 \/ line.child = "Optional" /\ kinds = {"Optional"}
              /\ line.parent = "Regular" =>
                    <<line.child, line.color, line.style>> \in
                        {<<"Regular", "", "">>, <<"Build", "purple", "dashed">>,
                         <<"Dev", "blue", "dashed">>, <<"Optional", "red", "dashed">>}

\* C6 witness: the root declares the child only as a build dependency, the
\* child carries is_regular from another path, and the root's edge to it is
\* written purple and dashed.
C6_Witness ==
    \E k \in 1..Len(out_edges) :
        /\ out_edges[k].edge[1] = 0
        /\ out_edges[k].edge[2] # 0
        /\ get(nodes, out_edges[k].edge[2]).is_regular
        /\ root_deps_map[get(nodes, out_edges[k].edge[2]).name] = {"Build"}
        /\ out_edges[k].color = "purple"
        /\ out_edges[k].style = "dashed"

KindColor(kd) ==
    CASE kd = "Build" -> "purple"
      [] kd = "Dev" -> "blue"
      [] kd = "Optional" -> "red"
      [] kd = "Unknown" -> "orange"

\* C7: an edge is plain when parent and child are both Regular, and
\* otherwise dashed in the colour of the highest-precedence non-regular kind
\* among the two (Build > Dev > Optional > Unknown).
C7_ColourOfHighestOfTheTwo ==
    \A k \in 1..Len(out_edges) :
        LET line == out_edges[k]
            both == {line.parent, line.child}
        IN  IF both = {"Regular"}
            THEN line.color = "" /\ line.style = ""
            ELSE /\ line.style = "dashed"
                 /\ line.color =
                        IF "Build" \in both THEN KindColor("Build")
                        ELSE IF "Dev" \in both THEN KindColor("Dev")
                        ELSE IF "Optional" \in both THEN KindColor("Optional")
                        ELSE KindColor("Unknown")

\* C7 amended: an edge is plain when parent and child are both Regular, and
\* otherwise dashed; its colour is the parent's when the parent is not
\* Regular and the child's when the parent is Regular.
C7_ColourOfParentFirst ==
    \A k \in 1..Len(out_edges) :
        LET line == out_edges[k]
        IN  IF line.parent = "Regular" /\ line.child = "Regular"
            THEN line.color = "" /\ line.style = ""
            ELSE /\ line.style = "dashed"
                 /\ line.color = IF line.parent # "Regular"
                                 THEN KindColor(line.parent)
                                 ELSE KindColor(line.child)

\* C7 witness: an edge from a Dev parent to a Build child was written, blue.
C7_Witness ==
    \E k \in 1..Len(out_edges) :
        /\ out_edges[k].parent = "Dev"
        /\ out_edges[k].child = "Build"
        /\ out_edges[k].color = "blue"

Flags(d) == {kd \in Kinds : HasKind(d, kd)}

\* A step that changes nothing of a node but flags that go from false to
\* true.
FlagsRise ==
    /\ Len(nodes') = Len(nodes)
    /\ \A p \in 1..Len(nodes) :
          /\ Flags(nodes[p]) \subseteq Flags(nodes'[p])
          /\ nodes'[p].name = nodes[p].name
          /\ nodes'[p].ver = nodes[p].ver
          /\ nodes'[p].force_write_ver = nodes[p].force_write_ver

\* C10: no step of set_resolved_kind clears a kind flag; a step changes
\* nothing of a node but flags that go from false to true.
C10_FlagsOnlyRise == [][(pc \in {"kind", "kind_loop"}) => FlagsRise]_vars

\* C10 witness: in a pass, an edge from a node other than the root has been
\* relaxed whose target carries a kind that its source does not.
C10_Witness ==
    /\ pc = "kind_loop"
    /\ \E k \in 1..idx :
          /\ edges[k][1] # 0
          /\ Flags(get(nodes, edges[k][2])) \ Flags(get(nodes, edges[k][1])) # {}

\* The nodes of ns that are still nodes of ms, in the order of ns.
Surviving(ns, ms) ==
    SelectSeq(ns, LAMBDA d : \E p \in 1..Len(ms) : ms[p] = d)

\* The edges of es read as pairs of packages of ns.
PkgEdges(ns, es) ==
    [k \in 1..Len(es) |-> <<PkgAt(ns, es[k][1]), PkgAt(ns, es[k][2])>>]

\* The in-range edges of es whose source is a node of ns that is still a
\* node of ms.
SourceSurvives(ns, es, ms) ==
    SelectSeq(es, LAMBDA e :
        /\ InRange(ns, e[1])
        /\ InRange(ns, e[2])
        /\ \E p \in 1..Len(ms) : ms[p] = get(ns, e[1]))

\* C11: when remove_orphans returns, the remaining nodes are nodes it was
\* given, in their old relative order, and the remaining edges, read as pairs
\* of (name, version) packages, are exactly the in-range edges it was given
\* whose source node remains, in their old order: none is redirected to
\* another package and none is dropped while its source remains.
C11_RenumberingKeepsPackages ==
    (pc = "self" /\ pre # NoGraph) =>
        /\ nodes = Surviving(pre.nodes, nodes)
        /\ PkgEdges(nodes, edges)
              = PkgEdges(pre.nodes, SourceSurvives(pre.nodes, pre.edges, nodes))

\* C11 witness: remove_orphans removed a node, dropped an in-range edge that
\* left a removed node, and kept an edge whose ids it had to shift down.
C11_Witness ==
    /\ pc = "self"
    /\ pre # NoGraph
    /\ Len(nodes) < Len(pre.nodes)
    /\ \E k \in 1..Len(pre.edges) :
          /\ k \notin Dangling(pre.nodes, pre.edges)
          /\ \A p \in 1..Len(nodes) : nodes[p] # get(pre.nodes, pre.edges[k][1])
    /\ \E k \in 1..Len(edges) : \A j \in 1..Len(pre.edges) :
          edges[k] # pre.edges[j]

\* C12: in the graph render_to writes with include_orphans off, every node
\* other than n0 is the target of a written edge that comes from another
\* node.
C12_EmittedNodesHaveOtherParent ==
    (pc = "done" /\ ~cfg.include_orphans) =>
        \A p \in 1..Len(out_nodes) :
            out_nodes[p].id # 0 =>
                \E k \in 1..Len(out_edges) :
                    /\ out_edges[k].edge[2] = out_nodes[p].id
                    /\ out_edges[k].edge[1] # out_nodes[p].id
====
